---------------------------- MODULE Spec2Model ----------------------------
(***************************************************************************)
(* A model of the secp256k1 module of bitcoin-rust: field elements, curve  *)
(* points, deterministic ECDSA signing / verification and the SEC          *)
(* encoding.                                                               *)
(*                                                                         *)
(* Scale.  TLC's integers are 32 bits wide, so the 256-bit curve is        *)
(* replaced by the curve of the same shape  y^2 = x^3 + 7  over the prime  *)
(* P = 967, whose group has the prime order N = 907.  As for secp256k1:    *)
(* P = 3 (mod 4), P = 1 (mod 3), N is prime, N < P, N and P have the same  *)
(* byte length, some x-coordinates lie in [N, P) and some coordinates have *)
(* leading zero bytes.  A field element takes ElemBytes = 2 bytes where    *)
(* the source has 32.  Bytes are 0..255, strings are sequences of byte     *)
(* values (ASCII codes).                                                   *)
(***************************************************************************)
EXTENDS Integers, Sequences, FiniteSets, TLC

VARIABLES call, hist, thr, frames, tls

vars == <<call, hist, thr, frames, tls>>

-----------------------------------------------------------------------------
(* Results of fallible operations: Ok(v), Err(e) (a returned error) and     *)
(* Panic(m) (an unwrap on None/Err, an index out of range, a division by a  *)
(* non-invertible residue).                                                 *)

Ok(v) == [tag |-> "ok", val |-> <<v>>, why |-> ""]

Err(e) == [tag |-> "err", val |-> <<>>, why |-> e]

Panic(m) == [tag |-> "panic", val |-> <<>>, why |-> m]

IsOk(r) == r.tag = "ok"

Val(r) == r.val[1]

\* let d == v in F(d), with v evaluated once
With(v, F(_)) == CHOOSE r \in {F(d) : d \in {v}} : TRUE

(* Option<T>: None is <<>>, Some(v) is <<v>>. *)
None == <<>>

Some(v) == <<v>>

-----------------------------------------------------------------------------
(* constants.rs, scaled *)

P == 967

N == 907

B == 7

Gx == 262

Gy == 389

\* bytes of a field element / of an HMAC digest (32 in the source)
ElemBytes == 2

-----------------------------------------------------------------------------
(* The big-integer collaborator (ibig): modular rings. *)

RECURSIVE EGcd(_, _, _, _)
EGcd(r0, r1, t0, t1) ==
    IF r1 = 0 THEN <<r0, t0>>
    ELSE LET q == r0 \div r1 IN EGcd(r1, r0 - q * r1, t1, t0 - q * t1)

\* Modulo::inverse: Some(a^-1 mod m), or None when gcd(a, m) # 1
ModInverse(a, m) ==
    With(EGcd(m, a % m, 0, 1),
         LAMBDA g : IF g[1] = 1 THEN Some(g[2] % m) ELSE None)

\* Modulo / Modulo: panics on a non-invertible divisor
ModDiv(a, b, m) ==
    With(ModInverse(b, m),
         LAMBDA i :
             IF i = None THEN Panic("Division by a non-invertible Modulo")
             ELSE Ok(((a % m) * i[1]) % m))

RECURSIVE ModPow(_, _, _)
ModPow(a, e, m) ==
    IF e = 0 THEN 1 % m
    ELSE With(ModPow(a, e \div 2, m),
              LAMBDA h :
                  IF e % 2 = 1 THEN (((h * h) % m) * (a % m)) % m
                  ELSE (h * h) % m)

\* Modulo::pow_signed: a negative exponent inverts first (panics if it cannot)
ModPowSigned(a, e, m) ==
    IF e >= 0 THEN Ok(ModPow(a, e, m))
    ELSE With(ModInverse(a, m),
              LAMBDA i :
                  IF i = None
                  THEN Panic("Non-invertible Modulo in pow_signed")
                  ELSE Ok(ModPow(i[1], -e, m)))

-----------------------------------------------------------------------------
(* element.rs: an Element is its num, an integer in 0..P-1. *)

\* a range check that lets P itself through
ElementNewMut(num) == IF num > P THEN Err("NotInRange") ELSE Ok(num)

\* Element::new
ElementNew(num) == IF num >= P THEN Err("NotInRange") ELSE Ok(num)

\* a pow that uses the magnitude of the exponent
ElPowMut(a, exp) == Ok(ModPow(a, IF exp < 0 THEN -exp ELSE exp, P))

\* Element::pow (pow_signed in the ring of P)
ElPow(a, exp) == ModPowSigned(a, exp, P)

\* a square root with the exponent (P-1)/4
ElSqrtMut(a) == ElPow(a, (P - 1) \div 4)

\* Element::sqrt: a^((P+1)/4)
ElSqrt(a) == ElPow(a, (P + 1) \div 4)

\* Element::is_zero
ElIsZero(a) == a = 0

ElAdd(a, b) == ((a % P) + (b % P)) % P

ElSub(a, b) == ((a % P) - (b % P)) % P

\* a product that is not reduced
ElMulMut(a, b) == a * b

ElMul(a, b) == ((a % P) * (b % P)) % P

\* impl Div for Element
ElDiv(a, b) == ModDiv(a, b, P)

\* a quotient with the operands swapped
ElDivRefMut(a, b) == ModDiv(b, a, P)

\* impl Div for &Element
ElDivRef(a, b) == ModDiv(a, b, P)

-----------------------------------------------------------------------------
(* point.rs: a Point is [x, y], each an Option<Element>. *)

MkPoint(x, y) == [x |-> Some(x), y |-> Some(y)]

\* Point::inf
PointInf == [x |-> None, y |-> None]

\* Point::is_inf
IsInf(p) == p.x = None

\* the check of Point::new on (Some(x), Some(y)): y^2 == B + x^3
CurveCheck(x, y) == Val(ElPow(y, 2)) = ElAdd(B, Val(ElPow(x, 3)))

\* a constructor that accepts any pair of coordinates
PointNewMut(x, y) ==
    IF x = None /\ y = None THEN Ok(PointInf)
    ELSE IF y = None THEN Err("InvalidPoint")
    ELSE IF x = None THEN Err("InvalidPoint")
    ELSE Ok([x |-> x, y |-> y])

\* Point::new
PointNew(x, y) ==
    IF x = None /\ y = None THEN Ok(PointInf)
    ELSE IF y = None THEN Err("InvalidPoint")
    ELSE IF x = None THEN Err("InvalidPoint")
    ELSE IF ~CurveCheck(x[1], y[1]) THEN Err("InvalidPoint")
    ELSE Ok([x |-> x, y |-> y])

\* the slope of impl Add for Point, for x1 == x2 (tangent) or not (chord)
Slope(x1, y1, x2, y2) ==
    IF x1 = x2
    THEN ElDiv(ElMul(3, Val(ElPow(x1, 2))), ElMul(2, y1))
    ELSE ElDiv(ElSub(y2, y1), ElSub(x2, x1))

\* the end of impl Add for Point: the sum from the slope m
AddFromSlope(x1, y1, x2, m) ==
    With(ElSub(ElSub(Val(ElPow(m, 2)), x1), x2),
         LAMBDA x3 :
             With(PointNew(Some(x3), Some(ElSub(ElMul(m, ElSub(x1, x3)), y1))),
                  LAMBDA r : IF IsOk(r) THEN r
                             ELSE Panic("unwrap on InvalidPoint")))

\* an arm that does not look for additive inverses
AddSomeMut(x1, y1, x2, y2) ==
    IF x1 = x2 /\ ElIsZero(y1) THEN Ok(PointInf)
    ELSE With(Slope(x1, y1, x2, y2),
              LAMBDA m : IF ~IsOk(m) THEN m
                         ELSE AddFromSlope(x1, y1, x2, Val(m)))

\* impl Add for Point, the arm (Some(x1), Some(y1), Some(x2), Some(y2))
AddSome(x1, y1, x2, y2) ==
    IF x1 = x2 /\ y1 # y2 THEN Ok(PointInf)
    ELSE IF x1 = x2 /\ ElIsZero(y1) THEN Ok(PointInf)
    ELSE With(Slope(x1, y1, x2, y2),
              LAMBDA m : IF ~IsOk(m) THEN m
                         ELSE AddFromSlope(x1, y1, x2, Val(m)))

\* an addition whose first arm returns self instead of rhs
PointAddMut(p, q) ==
    IF p.x = None THEN Ok(p)
    ELSE IF q.x = None THEN Ok(p)
    ELSE IF p.y = None \/ q.y = None THEN Ok(PointInf)
    ELSE AddSome(p.x[1], p.y[1], q.x[1], q.y[1])

\* impl Add for Point
PointAdd(p, q) ==
    IF p.x = None THEN Ok(q)
    ELSE IF q.x = None THEN Ok(p)
    ELSE IF p.y = None \/ q.y = None THEN Ok(PointInf)
    ELSE AddSome(p.x[1], p.y[1], q.x[1], q.y[1])

\* a loop that never doubles current
RECURSIVE MulLoopMut(_, _, _)
MulLoopMut(coefficient, current, result) ==
    IF coefficient = 0 THEN Ok(result)
    ELSE With(IF coefficient % 2 = 1 THEN PointAdd(result, current)
              ELSE Ok(result),
              LAMBDA acc :
                  IF ~IsOk(acc) THEN acc
                  ELSE MulLoopMut(coefficient \div 2, current, Val(acc)))

\* the loop of impl Mul<Point> for UBig
RECURSIVE MulLoop(_, _, _)
MulLoop(coefficient, current, result) ==
    IF coefficient = 0 THEN Ok(result)
    ELSE With(IF coefficient % 2 = 1 THEN PointAdd(result, current)
              ELSE Ok(result),
              LAMBDA acc :
         With(PointAdd(current, current),
              LAMBDA dbl :
                  IF ~IsOk(acc) THEN acc
                  ELSE IF ~IsOk(dbl) THEN dbl
                  ELSE MulLoop(coefficient \div 2, Val(dbl), Val(acc))))

\* a multiplication that reduces the coefficient in the ring of P
ScalarMulMut(k, p) == MulLoop(k % P, p, PointInf)

\* impl Mul<Point> for UBig: the coefficient is reduced in the ring of N
ScalarMul(k, p) == MulLoop(k % N, p, PointInf)

\* constants.rs: G
G == Val(PointNew(Some(Gx), Some(Gy)))

-----------------------------------------------------------------------------
(* fields/field_element.rs and ecc/point.rs: the generic field element      *)
(* [num, prime] and the generic point [x, y, a, b] of y^2 = x^3 + ax + b.   *)
(* The operands of every operation below are elements of one field.         *)

Fe(num, prime) == [num |-> num, prime |-> prime]

\* FieldElement::new
FeNew(num, prime) ==
    IF num >= prime THEN Err("NotInRange") ELSE Ok(Fe(num, prime))

\* FieldElement::pow
FePow(a, exp) == Fe(Val(ModPowSigned(a.num, exp, a.prime)), a.prime)

\* FieldElement::zero
FeZero(a) == Fe(0, a.prime)

\* impl Add, Sub, Mul for FieldElement
FeAdd(a, b) == Fe((a.num + b.num) % a.prime, a.prime)

FeSub(a, b) == Fe((a.num + a.prime - b.num) % a.prime, a.prime)

FeMul(a, b) == Fe((a.num * b.num) % a.prime, a.prime)

\* impl Div for FieldElement: panics on a divisor that has no inverse
FeDiv(a, b) ==
    With(ModDiv(a.num, b.num, a.prime),
         LAMBDA q : IF IsOk(q) THEN Ok(Fe(Val(q), a.prime)) ELSE q)

\* ecc Point::inf
GenericInf(a, b) == [x |-> None, y |-> None, a |-> a, b |-> b]

\* ecc Point::new
GenericNew(x, y, a, b) ==
    IF x = None /\ y = None THEN Ok(GenericInf(a, b))
    ELSE IF x = None \/ y = None THEN Err("InvalidPoint")
    ELSE IF FePow(y[1], 2)
                # FeAdd(FeAdd(FePow(x[1], 3), FeMul(a, x[1])), b)
    THEN Err("InvalidPoint")
    ELSE Ok([x |-> x, y |-> y, a |-> a, b |-> b])

\* the slope of the generic impl Add for Point, for self == rhs or not
GenericSlope(p, q) ==
    IF p = q
    THEN FeDiv(FeAdd(FeMul(Fe(3, p.x[1].prime), FePow(p.x[1], 2)), p.a),
               FeMul(Fe(2, p.x[1].prime), p.y[1]))
    ELSE FeDiv(FeSub(q.y[1], p.y[1]), FeSub(q.x[1], p.x[1]))

\* the end of the generic impl Add for Point: the sum from the slope m,
\* built without Point::new
GenericFromSlope(p, q, m) ==
    With(FeSub(FeSub(FePow(m, 2), p.x[1]), q.x[1]),
         LAMBDA x3 :
             Ok([x |-> Some(x3),
                 y |-> Some(FeSub(FeMul(m, FeSub(p.x[1], x3)), p.y[1])),
                 a |-> p.a, b |-> p.b]))

\* the generic impl Add for Point
GenericAdd(p, q) ==
    IF p.a # q.a \/ p.b # q.b THEN Panic("NotSameCurve")
    ELSE IF p.x = None THEN Ok(q)
    ELSE IF q.x = None THEN Ok(p)
    ELSE IF p.x[1] = q.x[1] THEN Ok(GenericInf(p.a, p.b))
    ELSE IF p = q /\ p.y[1] = FeZero(p.y[1]) THEN Ok(GenericInf(p.a, p.b))
    ELSE With(GenericSlope(p, q),
              LAMBDA m : IF ~IsOk(m) THEN m
                         ELSE GenericFromSlope(p, q, Val(m)))

\* the secp256k1 point p as a generic point of the curve a = 0, b = 7
\* over the prime P
AsGeneric(p) ==
    IF p.x = None THEN GenericInf(Fe(0, P), Fe(B, P))
    ELSE [x |-> Some(Fe(p.x[1], P)), y |-> Some(Fe(p.y[1], P)),
          a |-> Fe(0, P), b |-> Fe(B, P)]

\* the generic point p without its curve: coordinates as numbers
Coordinates(p) ==
    IF p.x = None THEN PointInf ELSE MkPoint(p.x[1].num, p.y[1].num)

-----------------------------------------------------------------------------
(* Bytes and strings (collaborators: ibig, hex, str). *)

\* UBig::to_be_bytes: the minimal big-endian bytes, none for 0
RECURSIVE ToBeBytes(_)
ToBeBytes(n) == IF n = 0 THEN <<>> ELSE Append(ToBeBytes(n \div 256), n % 256)

\* UBig::from_be_bytes
RECURSIVE FromBeBytes(_)
FromBeBytes(bs) ==
    IF bs = <<>> THEN 0
    ELSE FromBeBytes(SubSeq(bs, 1, Len(bs) - 1)) * 256 + bs[Len(bs)]

HexDigitUpper(d) == IF d < 10 THEN 48 + d ELSE 55 + d

\* hex::encode_upper: two upper-case hex digits per byte
RECURSIVE EncodeUpper(_)
EncodeUpper(bs) ==
    IF bs = <<>> THEN <<>>
    ELSE <<HexDigitUpper(bs[1] \div 16), HexDigitUpper(bs[1] % 16)>>
             \o EncodeUpper(Tail(bs))

\* the value of one digit in radix 16, -1 if it is none
HexVal(c) ==
    IF c >= 48 /\ c <= 57 THEN c - 48
    ELSE IF c >= 65 /\ c <= 70 THEN c - 55
    ELSE IF c >= 97 /\ c <= 102 THEN c - 87
    ELSE -1

RECURSIVE HexFold(_, _)
HexFold(acc, str) ==
    IF str = <<>> THEN acc
    ELSE HexFold(acc * 16 + HexVal(str[1]), Tail(str))

\* UBig::from_str_radix(str, 16): fails on the empty string and on a non-digit
FromStrRadix16(str) ==
    IF str = <<>> \/ \E i \in 1..Len(str) : HexVal(str[i]) < 0
    THEN Err("ParseError")
    ELSE Ok(HexFold(0, str))

\* Element::new(&str, 16) as point.rs calls it: parse, then the range check
ElementNewStr(str) ==
    With(FromStrRadix16(str),
         LAMBDA n : IF IsOk(n) THEN ElementNew(Val(n)) ELSE n)

\* str::get(from..to), 0-based and half-open: None when out of range
StrGet(str, from, to) ==
    IF to > Len(str) THEN None ELSE Some(SubSeq(str, from + 1, to))

-----------------------------------------------------------------------------
(* point.rs: SEC encoding *)

\* Point::x, Point::y: unwrap the coordinate
PointX(p) == IF p.x = None THEN Panic("unwrap on None") ELSE Ok(p.x[1])

PointY(p) == IF p.y = None THEN Panic("unwrap on None") ELSE Ok(p.y[1])

\* Point::serialise
Serialise(p, compressed) ==
    IF p.y = None \/ p.x = None THEN Panic("unwrap on None")
    ELSE LET x == Val(PointX(p))
             y == Val(PointY(p))
         IN  IF compressed
             THEN LET prefix == IF y = 0 \/ y % 2 = 0 THEN 2 ELSE 3
                  IN  Ok(EncodeUpper(<<prefix>> \o ToBeBytes(x)))
             ELSE Ok(EncodeUpper(<<4>> \o ToBeBytes(x) \o ToBeBytes(y)))

\* the end of Point::parse for a compressed encoding: pick the root of the
\* prefix's parity among beta and P - beta
PickRoot(prefix, x, beta) ==
    With(ElementNew(P - beta),
         LAMBDA other :
             IF ~IsOk(other) THEN other
             ELSE LET even_y == IF beta % 2 = 0 THEN beta ELSE Val(other)
                      odd_y == IF beta % 2 = 0 THEN Val(other) ELSE beta
                  IN  IF prefix = 2 THEN PointNew(Some(x), Some(even_y))
                      ELSE PointNew(Some(x), Some(odd_y)))

\* the compressed branch of Point::parse, from the decoded x on
ParseCompressed(prefix, x) ==
    PickRoot(prefix, x, Val(ElSqrt(ElAdd(B, Val(ElPow(x, 3))))))

\* the uncompressed branch of Point::parse, from the decoded x on
ParseUncompressed(sec_hex, x) ==
    With(StrGet(sec_hex, 1 + ElemBytes, 1 + 2 * ElemBytes),
         LAMBDA ys :
             IF ys = None THEN Panic("unwrap on None")
             ELSE With(ElementNewStr(ys[1]),
                       LAMBDA y : IF ~IsOk(y) THEN y
                                  ELSE Ok(MkPoint(x, Val(y)))))

\* Point::parse
Parse(sec_hex) ==
    IF Len(sec_hex) = 0 THEN Panic("index out of bounds")
    ELSE With(StrGet(sec_hex, 1, 1 + ElemBytes),
              LAMBDA xs :
                  IF xs = None THEN Panic("unwrap on None")
                  ELSE With(ElementNewStr(xs[1]),
                            LAMBDA x :
                                IF ~IsOk(x) THEN x
                                ELSE IF sec_hex[1] = 4
                                THEN ParseUncompressed(sec_hex, Val(x))
                                ELSE ParseCompressed(sec_hex[1], Val(x))))

-----------------------------------------------------------------------------
(* The HMAC-SHA-256 collaborator.  It is modelled by a keyed function from  *)
(* (key, message) to a digest of ElemBytes bytes: a polynomial hash, salted *)
(* by HmacSalt, whose value ranges over [0, HashRange), the least power of  *)
(* two above N (as 2^256 is for secp256k1).                                 *)

HmacSalt == 0

HashRange == 1024

RECURSIVE Absorb(_, _)
Absorb(h, bs) ==
    IF bs = <<>> THEN h
    ELSE Absorb((h * 31 + bs[1] + 1) % 32749, Tail(bs))

\* bs as exactly len bytes (used for digests only)
FixedBytes(n, len) == [i \in 1..len |-> (n \div (256 ^ (len - i))) % 256]

\* Hmac::new_from_slice(key); update(msg); finalize()
Hmac(key, msg) ==
    With(Absorb(Absorb(Absorb(HmacSalt + 17, key), <<255>>), msg),
         LAMBDA h : FixedBytes(((h * 181 + Len(msg)) % 32749) % HashRange,
                               ElemBytes))

-----------------------------------------------------------------------------
(* keys.rs *)

\* b"\x00".repeat(32), b"\x01".repeat(32)
Repeat(b) == [i \in 1..ElemBytes |-> b]

\* the bytes of the hash that deterministic_k feeds to the HMAC
HashBytes(z) == IF z > N THEN ToBeBytes(z - N) ELSE ToBeBytes(z)

\* the retry loop of deterministic_k
RECURSIVE NonceLoop(_, _)
NonceLoop(k, v) ==
    With(Hmac(k, v),
         LAMBDA v1 :
             IF FromBeBytes(v1) >= 1 /\ FromBeBytes(v1) < N
             THEN FromBeBytes(v1)
             ELSE With(Hmac(k, v1 \o <<0>>),
                       LAMBDA k2 : NonceLoop(k2, Hmac(k2, v1))))

\* the message V || sep || secret_bytes || z_bytes of deterministic_k
NonceMsg(v, sep, e, z) == v \o <<sep>> \o ToBeBytes(e) \o HashBytes(z)

\* PrivateKey::deterministic_k
DeterministicK(e, z) ==
    With(Hmac(Repeat(0), NonceMsg(Repeat(1), 0, e, z)),
         LAMBDA k1 :
    With(Hmac(k1, Repeat(1)),
         LAMBDA v1 :
    With(Hmac(k1, NonceMsg(v1, 1, e, z)),
         LAMBDA k2 : NonceLoop(k2, Hmac(k2, v1)))))

\* PrivateKey::new: the public point e * G
PublicPoint(e) == ScalarMul(e, G)

\* a signing that keeps the raw s
LowSMut(s) == s

\* the low-s step of PrivateKey::sign
LowS(s) == IF s > N \div 2 THEN N - s ELSE s

\* the end of PrivateKey::sign, from r on; the result keeps k and the raw s
SignFrom(e, z, k, r) ==
    With(ModDiv(z + r * e, k, N),
         LAMBDA raw :
             IF ~IsOk(raw) THEN raw
             ELSE Ok([r |-> r, s |-> LowS(Val(raw)), k |-> k,
                      raw |-> Val(raw)]))

\* PrivateKey::sign with the nonce k
SignWith(e, z, k) ==
    With(ScalarMul(k, G),
         LAMBDA kg :
             IF ~IsOk(kg) THEN kg
             ELSE IF Val(kg).x = None THEN Panic("unwrap on None")
             ELSE SignFrom(e, z, k, Val(kg).x[1]))

\* PrivateKey::sign
Sign(e, z) == SignWith(e, z, DeterministicK(e, z))

-----------------------------------------------------------------------------
(* signature.rs: DER *)

\* an INTEGER that is padded only when its first byte is above 0x80
DerIntMut(n) ==
    With(ToBeBytes(n),
         LAMBDA bytes :
             IF bytes = <<>> THEN Panic("index out of bounds")
             ELSE With(IF bytes[1] > 128 THEN <<0>> \o bytes ELSE bytes,
                       LAMBDA padded :
                           Ok(<<2, Len(padded) % 256>> \o padded)))

\* Signature::serialise: the INTEGER of r or of s; indexing the first byte
\* of no bytes panics
DerInt(n) ==
    With(ToBeBytes(n),
         LAMBDA bytes :
             IF bytes = <<>> THEN Panic("index out of bounds")
             ELSE With(IF bytes[1] >= 128 THEN <<0>> \o bytes ELSE bytes,
                       LAMBDA padded :
                           Ok(<<2, Len(padded) % 256>> \o padded)))

\* Signature::serialise: the two INTEGERs wrapped and hex-encoded
DerWrap(enc) == EncodeUpper(<<48, Len(enc) % 256>> \o enc)

\* Signature::serialise
SigSerialise(r, s) ==
    With(DerInt(r),
         LAMBDA ri :
             IF ~IsOk(ri) THEN ri
             ELSE With(DerInt(s),
                       LAMBDA si : IF ~IsOk(si) THEN si
                                   ELSE Ok(DerWrap(Val(ri) \o Val(si)))))

-----------------------------------------------------------------------------
(* point.rs: verification *)

\* u * G + v * P
Combine(u, v, pub) ==
    With(ScalarMul(u, G),
         LAMBDA ug :
             IF ~IsOk(ug) THEN ug
             ELSE With(ScalarMul(v, pub),
                       LAMBDA vp : IF ~IsOk(vp) THEN vp
                                   ELSE PointAdd(Val(ug), Val(vp))))

\* the point R = u * G + v * P of Point::verify
VerifyPoint(pub, z, r, s) ==
    With(ModDiv(z, s, N),
         LAMBDA u :
             IF ~IsOk(u) THEN u
             ELSE With(ModDiv(r, s, N),
                       LAMBDA v : IF ~IsOk(v) THEN v
                                  ELSE Combine(Val(u), Val(v), pub)))

\* the end of Point::verify: r.x.unwrap().num() == signature.r()
VerifyResult(R, r) ==
    IF ~IsOk(R) THEN R
    ELSE IF Val(R).x = None THEN Panic("unwrap on None")
    ELSE Ok(Val(R).x[1] = r)

\* Point::verify
Verify(pub, z, r, s) == VerifyResult(VerifyPoint(pub, z, r, s), r)

\* a call of verify; the record keeps the point R
VerifyCall(src, pub, z, r, s) ==
    With(VerifyPoint(pub, z, r, s),
         LAMBDA R : [op |-> "verify", src |-> src, pub |-> pub, z |-> z,
                     r |-> r, s |-> s, R |-> R, out |-> VerifyResult(R, r)])

-----------------------------------------------------------------------------
(* Inputs *)

MaxNewX == 9

MaxAddK == 8

MaxMulK == 6

MaxSecret == 3

MaxHash == 150

MaxSigS == 2

MaxSigR == 20

Option(S) == {None} \cup {Some(v) : v \in S}

\* every point of the curve, the identity excluded
CurvePoints ==
    UNION {{MkPoint(x, y) : y \in {w \in 0..(P - 1) :
                                     (w * w) % P = (x * x * x + B) % P}} :
           x \in 0..(P - 1)}

\* k * G for small k and for k near N: points, their inverses, the identity
SomePoints ==
    {Val(ScalarMul(k, G)) : k \in (0..MaxAddK) \cup ((N - MaxAddK)..(N - 1))}

Scalars == (0..MaxMulK) \cup {N - 1, N, N + 1}

\* operands of an addition: pairs of SomePoints, and every point of the
\* curve with the identity on either side
AddInputs ==
    (SomePoints \X SomePoints)
        \cup {<<p, PointInf>> : p \in CurvePoints}
        \cup {<<PointInf, p>> : p \in CurvePoints}

MaxElem == 20

MaxOver == 2

\* the numbers handed to Element::new: small ones, and those around P
ElemNums == (0..MaxElem) \cup ((P - MaxOver)..(P + MaxOver))

MaxOperand == 2

MaxExp == 3

\* the right operands of the Element operators
ElemOperands == (0..MaxOperand) \cup {P - 1}

\* the exponents of pow
Exps == (-MaxExp)..MaxExp

ElemHows == {"add", "sub", "mul", "div", "divref"}

\* one operation of element.rs on a (and b), as a Result
ElemApply(how, a, b) ==
    CASE how = "add" -> Ok(ElAdd(a, b))
      [] how = "sub" -> Ok(ElSub(a, b))
      [] how = "mul" -> Ok(ElMul(a, b))
      [] how = "div" -> ElDiv(a, b)
      [] how = "divref" -> ElDivRef(a, b)
      [] how = "pow" -> ElPow(a, b)
      [] how = "sqrt" -> ElSqrt(a)

\* the operations on a new element a
ElemCalls(a) ==
    {<<how, b>> : how \in ElemHows, b \in ElemOperands \cup {a}}
        \cup {<<"pow", n>> : n \in Exps}
        \cup {<<"sqrt", 0>>}

\* the operations that follow on the result of an operation
ChainCalls ==
    {<<how, 2>> : how \in ElemHows} \cup {<<"pow", -1>>, <<"sqrt", 0>>}

MaxDer == 2

\* the r and s that are DER-encoded: one and two bytes long, with and
\* without the high bit in the first byte
DerValues ==
    (0..MaxDer) \cup {127, 128, 255, 256, N - 1, 32767, 32768, 65535}

MaxSumPoint == 3

MaxWrap == 62

\* the points that are added to themselves N + MaxWrap times
SumPoints == {Val(ScalarMul(k, G)) : k \in 0..MaxSumPoint}

Secrets == 1..MaxSecret

\* message hashes: small ones, and ones at and above N and 2 * N
Hashes ==
    (0..MaxHash) \cup {N - 1, N, N + 1, N + 5, 2 * N, 2 * N + 1, 2 * N + 5}

PublicKeys == {Val(PublicPoint(e)) : e \in Secrets}

\* the secrets handed to PrivateKey::new: small ones, and ones around N
KeySecrets == (0..MaxSecret) \cup {N - 1, N, N + 1}

VerifyHashes == {0, 1, N - 1}

\* candidate r: small values, and every value of [N, P]
VerifyRs == (0..MaxSigR) \cup (N..P)

\* strings handed to parse: a prefix byte, then up to 2 * ElemBytes characters
Prefixes == {2, 3, 4, 5, 48}

Chars == {48, 49, 50, 56, 70, 102, 71}

RECURSIVE StringsUpTo(_)
StringsUpTo(n) ==
    IF n = 0 THEN {<<>>}
    ELSE LET shorter == StringsUpTo(n - 1)
         IN  shorter \cup {Append(str, c) : str \in shorter, c \in Chars}

ParseInputs ==
    {<<>>} \cup {<<pre>> \o str : pre \in Prefixes,
                                  str \in StringsUpTo(2 * ElemBytes)}

-----------------------------------------------------------------------------
(* The state: the call in progress (its operation, inputs and result);     *)
(* for signing in threads: each thread's position in sign, the locals      *)
(* k and v of its deterministic_k, and the log of the signatures returned; *)
(* and the thread-local storage that holds the constants of constants.rs.  *)

Idle == [op |-> "idle"]

Threads == {1, 2}

\* one buffer for k and v, shared by all calls
FrameMut(t) == 1

\* k and v are locals of deterministic_k: each call has its own
Frame(t) == t

ThreadIdle == [pc |-> "idle"]

NoFrame == [k |-> <<>>, v |-> <<>>]

\* the statics of constants.rs
ConstNames == {"B", "N", "P", "G", "N_RING", "P_RING"}

\* a static before its first use in a thread
Uninit == [state |-> "uninit", val |-> <<>>, inits |-> 0]

Init ==
    /\ call = Idle
    /\ hist = <<>>
    /\ thr = [t \in Threads |-> ThreadIdle]
    /\ frames = [t \in Threads |-> NoFrame]
    /\ tls = [t \in Threads |-> [c \in ConstNames |-> Uninit]]

CallNew ==
    /\ call = Idle
    /\ \E x \in Option(0..MaxNewX), y \in Option(0..(P - 1)) :
           call' = [op |-> "new", x |-> x, y |-> y, out |-> PointNew(x, y)]
    /\ UNCHANGED <<hist, thr, frames, tls>>

CallAdd ==
    /\ call = Idle
    /\ \E pq \in AddInputs :
           call' = [op |-> "add", p |-> pq[1], q |-> pq[2],
                    out |-> PointAdd(pq[1], pq[2])]
    /\ UNCHANGED <<hist, thr, frames, tls>>

CallMul ==
    /\ call = Idle
    /\ \E k \in Scalars, p \in SomePoints :
           call' = [op |-> "mul", k |-> k, p |-> p, out |-> ScalarMul(k, p)]
    /\ UNCHANGED <<hist, thr, frames, tls>>

\* the sum of no copy of p, next to 0 * p
SumStart ==
    /\ call = Idle
    /\ \E p \in SumPoints :
           call' = [op |-> "sum", p |-> p, k |-> 0, acc |-> Ok(PointInf),
                    out |-> ScalarMul(0, p)]
    /\ UNCHANGED <<hist, thr, frames, tls>>

\* one more copy of p added to the sum, next to (k + 1) * p
SumStep ==
    /\ call.op = "sum"
    /\ call.k < N + MaxWrap
    /\ IsOk(call.acc)
    /\ call' = [op |-> "sum", p |-> call.p, k |-> call.k + 1,
                acc |-> PointAdd(Val(call.acc), call.p),
                out |-> ScalarMul(call.k + 1, call.p)]
    /\ UNCHANGED <<hist, thr, frames, tls>>

CallElementNew ==
    /\ call = Idle
    /\ \E num \in ElemNums :
           call' = [op |-> "elnew", num |-> num, out |-> ElementNew(num)]
    /\ UNCHANGED <<hist, thr, frames, tls>>

\* an operation on the element that Element::new has returned
ElemOp ==
    /\ call.op = "elnew"
    /\ IsOk(call.out)
    /\ \E c \in ElemCalls(Val(call.out)) :
           call' = [op |-> "el", how |-> c[1], a |-> Val(call.out),
                    b |-> c[2], chained |-> FALSE,
                    out |-> ElemApply(c[1], Val(call.out), c[2])]
    /\ UNCHANGED <<hist, thr, frames, tls>>

\* a further operation on the element that an operation has returned
ElemThen ==
    /\ call.op = "el"
    /\ IsOk(call.out)
    /\ \E c \in ChainCalls :
           call' = [op |-> "el", how |-> c[1], a |-> Val(call.out),
                    b |-> c[2], chained |-> TRUE,
                    out |-> ElemApply(c[1], Val(call.out), c[2])]
    /\ UNCHANGED <<hist, thr, frames, tls>>

CallDer ==
    /\ call = Idle
    /\ \E r \in DerValues, s \in DerValues :
           call' = [op |-> "der", r |-> r, s |-> s, out |-> SigSerialise(r, s)]
    /\ UNCHANGED <<hist, thr, frames, tls>>

CallSerialise ==
    /\ call = Idle
    /\ \E p \in CurvePoints \cup {PointInf}, compressed \in BOOLEAN :
           call' = [op |-> "serialise", p |-> p, compressed |-> compressed,
                    out |-> Serialise(p, compressed)]
    /\ UNCHANGED <<hist, thr, frames, tls>>

\* serialise the point that an addition or a multiplication has returned
SerialiseResult ==
    /\ call.op \in {"add", "mul"}
    /\ IsOk(call.out)
    /\ \E compressed \in BOOLEAN :
           call' = [op |-> "serialise", p |-> Val(call.out),
                    compressed |-> compressed,
                    out |-> Serialise(Val(call.out), compressed)]
    /\ UNCHANGED <<hist, thr, frames, tls>>

\* parse what serialise has just returned
ParseBack ==
    /\ call.op = "serialise"
    /\ IsOk(call.out)
    /\ call' = [op |-> "parseback", p |-> call.p,
                compressed |-> call.compressed, str |-> Val(call.out),
                out |-> Parse(Val(call.out))]
    /\ UNCHANGED <<hist, thr, frames, tls>>

CallParse ==
    /\ call = Idle
    /\ \E str \in ParseInputs :
           call' = [op |-> "parse", str |-> str, out |-> Parse(str)]
    /\ UNCHANGED <<hist, thr, frames, tls>>

CallSign ==
    /\ call = Idle
    /\ \E e \in Secrets, z \in Hashes :
           call' = [op |-> "sign", e |-> e, z |-> z, out |-> Sign(e, z)]
    /\ UNCHANGED <<hist, thr, frames, tls>>

\* verify what sign has just returned, with the signer's public point
VerifyOwn ==
    /\ call.op = "sign"
    /\ IsOk(call.out)
    /\ call' = VerifyCall("own", Val(PublicPoint(call.e)), call.z,
                          Val(call.out).r, Val(call.out).s)
    /\ UNCHANGED <<hist, thr, frames, tls>>

\* the same, with r in the reduced form (r mod N) that a verifier receives
\* from a signer who reduces r
VerifyReduced ==
    /\ call.op = "sign"
    /\ IsOk(call.out)
    /\ call' = VerifyCall("reduced", Val(PublicPoint(call.e)), call.z,
                          Val(call.out).r % N, Val(call.out).s)
    /\ UNCHANGED <<hist, thr, frames, tls>>

CallVerify ==
    /\ call = Idle
    /\ \E pub \in PublicKeys, z \in VerifyHashes, r \in VerifyRs,
          s \in 0..MaxSigS :
               call' = VerifyCall("any", pub, z, r, s)
    /\ UNCHANGED <<hist, thr, frames, tls>>

\* PrivateKey::new(e): the key holds e and the point e * G
CallNewKey ==
    /\ call = Idle
    /\ \E e \in KeySecrets :
           call' = [op |-> "newkey", e |-> e, out |-> PublicPoint(e)]
    /\ UNCHANGED <<hist, thr, frames, tls>>

\* key.sign(z) on the key just built: sign borrows the key (&self), the
\* key's e and point stay as they are
KeySign ==
    /\ call.op = "newkey"
    /\ IsOk(call.out)
    /\ \E z \in VerifyHashes :
           call' = [op |-> "keysign", e |-> call.e, point |-> Val(call.out),
                    z |-> z, out |-> Sign(call.e, z)]
    /\ UNCHANGED <<hist, thr, frames, tls>>

\* key.point.serialise(compressed) on the key just built
KeySerialise ==
    /\ call.op = "newkey"
    /\ IsOk(call.out)
    /\ \E compressed \in BOOLEAN :
           call' = [op |-> "serialise", p |-> Val(call.out),
                    compressed |-> compressed,
                    out |-> Serialise(Val(call.out), compressed)]
    /\ UNCHANGED <<hist, thr, frames, tls>>

\* the same two points added by the generic Point and by the secp256k1
\* Point
CallGenericAdd ==
    /\ call = Idle
    /\ \E p \in SomePoints, q \in SomePoints :
           call' = [op |-> "bothadd", p |-> p, q |-> q,
                    generic |-> GenericAdd(AsGeneric(p), AsGeneric(q)),
                    out |-> PointAdd(p, q)]
    /\ UNCHANGED <<hist, thr, frames, tls>>

Return ==
    /\ call # Idle
    /\ call' = Idle
    /\ UNCHANGED <<hist, thr, frames, tls>>

Next ==
    \/ CallNew
    \/ CallAdd
    \/ CallMul
    \/ SumStart
    \/ SumStep
    \/ CallElementNew
    \/ ElemOp
    \/ ElemThen
    \/ CallSerialise
    \/ SerialiseResult
    \/ ParseBack
    \/ CallParse
    \/ CallSign
    \/ VerifyOwn
    \/ VerifyReduced
    \/ CallVerify
    \/ CallDer
    \/ CallNewKey
    \/ KeySign
    \/ KeySerialise
    \/ CallGenericAdd
    \/ Return

Spec == Init /\ [][Next]_vars

-----------------------------------------------------------------------------
(* Signing sessions: threads run sign statement by statement, interleaved   *)
(* in any order, and the signatures returned are logged (MaxLog at most).   *)

MaxLog == 2

DetSecrets == {1, 2}

DetHashes == {3, N + 3}

Running == {t \in Threads : thr[t].pc # "idle"}

K(t) == frames[Frame(t)].k

V(t) == frames[Frame(t)].v

\* a step of thread t from pc `from` to pc `to` that assigns k
SetK(t, from, to, k) ==
    /\ thr[t].pc = from
    /\ frames' = [frames EXCEPT ![Frame(t)].k = k]
    /\ thr' = [thr EXCEPT ![t].pc = to]
    /\ UNCHANGED <<call, hist, tls>>

\* a step of thread t from pc `from` to pc `to` that assigns v
SetV(t, from, to, v) ==
    /\ thr[t].pc = from
    /\ frames' = [frames EXCEPT ![Frame(t)].v = v]
    /\ thr' = [thr EXCEPT ![t].pc = to]
    /\ UNCHANGED <<call, hist, tls>>

\* sign is called in thread t; deterministic_k sets up k and v
Begin ==
    \E t \in Threads :
        /\ thr[t].pc = "idle"
        /\ Len(hist) + Cardinality(Running) < MaxLog
        /\ \E e \in DetSecrets, z \in DetHashes :
               thr' = [thr EXCEPT ![t] = [pc |-> "k1", e |-> e, z |-> z,
                                          at |-> Len(hist),
                                          retried |-> FALSE, tries |-> 0]]
        /\ frames' = [frames EXCEPT ![Frame(t)] =
                          [k |-> Repeat(0), v |-> Repeat(1)]]
        /\ UNCHANGED <<call, hist, tls>>

\* k = HMAC(k, v || 0x00 || secret_bytes || z_bytes)
StepK1 ==
    \E t \in Threads :
        SetK(t, "k1", "v1", Hmac(K(t), NonceMsg(V(t), 0, thr[t].e, thr[t].z)))

\* v = HMAC(k, v)
StepV1 == \E t \in Threads : SetV(t, "v1", "k2", Hmac(K(t), V(t)))

\* k = HMAC(k, v || 0x01 || secret_bytes || z_bytes)
StepK2 ==
    \E t \in Threads :
        SetK(t, "k2", "v2", Hmac(K(t), NonceMsg(V(t), 1, thr[t].e, thr[t].z)))

\* v = HMAC(k, v)
StepV2 == \E t \in Threads : SetV(t, "v2", "loop", Hmac(K(t), V(t)))

\* loop: v = HMAC(k, v)
StepLoop == \E t \in Threads : SetV(t, "loop", "test", Hmac(K(t), V(t)))

\* the candidate is in [1, N): deterministic_k returns it
StepAccept ==
    \E t \in Threads :
        /\ thr[t].pc = "test"
        /\ FromBeBytes(V(t)) >= 1 /\ FromBeBytes(V(t)) < N
        /\ thr' = [thr EXCEPT ![t] = [pc |-> "sign", e |-> thr[t].e,
                                      z |-> thr[t].z, at |-> thr[t].at,
                                      retried |-> thr[t].retried,
                                      tries |-> thr[t].tries,
                                      k |-> FromBeBytes(V(t))]]
        /\ frames' = [frames EXCEPT ![Frame(t)] = NoFrame]
        /\ UNCHANGED <<call, hist, tls>>

\* a retry that leaves the 0x00 byte out: k = HMAC(k, v)
StepRetryKMut ==
    \E t \in Threads :
        /\ thr[t].pc = "test"
        /\ ~(FromBeBytes(V(t)) >= 1 /\ FromBeBytes(V(t)) < N)
        /\ frames' = [frames EXCEPT ![Frame(t)].k = Hmac(K(t), V(t))]
        /\ thr' = [thr EXCEPT ![t].pc = "retry", ![t].retried = TRUE,
                              ![t].tries = @ + 1]
        /\ UNCHANGED <<call, hist, tls>>

\* the candidate is rejected: k = HMAC(k, v || 0x00)
StepRetryK ==
    \E t \in Threads :
        /\ thr[t].pc = "test"
        /\ ~(FromBeBytes(V(t)) >= 1 /\ FromBeBytes(V(t)) < N)
        /\ frames' = [frames EXCEPT ![Frame(t)].k = Hmac(K(t), V(t) \o <<0>>)]
        /\ thr' = [thr EXCEPT ![t].pc = "retry", ![t].retried = TRUE,
                              ![t].tries = @ + 1]
        /\ UNCHANGED <<call, hist, tls>>

\* v = HMAC(k, v), and around the loop
StepRetryV == \E t \in Threads : SetV(t, "retry", "loop", Hmac(K(t), V(t)))

\* the rest of sign, from the nonce on; the signature is returned and logged
Finish ==
    \E t \in Threads :
        /\ thr[t].pc = "sign"
        /\ hist' = Append(hist, [t |-> t, e |-> thr[t].e, z |-> thr[t].z,
                                 at |-> thr[t].at,
                                 retried |-> thr[t].retried,
                                 out |-> SignWith(thr[t].e, thr[t].z,
                                                  thr[t].k)])
        /\ thr' = [thr EXCEPT ![t] = ThreadIdle]
        /\ UNCHANGED <<call, frames, tls>>

NextDet ==
    \/ Begin
    \/ StepK1
    \/ StepV1
    \/ StepK2
    \/ StepV2
    \/ StepLoop
    \/ StepAccept
    \/ StepRetryK
    \/ StepRetryV
    \/ Finish

SpecDet == Init /\ [][NextDet]_vars

-----------------------------------------------------------------------------
(* Scalar multiplication, iteration by iteration: the loop of               *)
(* impl Mul<Point> for UBig with its locals coefficient, current and        *)
(* result; iters counts the iterations and adds the point additions into    *)
(* result.                                                                  *)

\* the multipliers: small ones, and ones around N and 2 * N
MulScalars == (0..MaxMulK) \cup {N - 1, N, N + 1, 2 * N, 2 * N + 1}

\* the points multiplied: points of the curve, the identity, and a point
\* that is not on the curve (Point::parse returns such points)
MulPoints == SomePoints \cup {MkPoint(1, 1)}

\* a shift that leaves the coefficient as it is
ShrMut(coefficient) == coefficient

\* coefficient >>= 1
Shr(coefficient) == coefficient \div 2

\* if (&coefficient & 1) == one { result = &result + &current }
IterResult(c) ==
    IF c.coefficient % 2 = 1 THEN PointAdd(c.result, c.current)
    ELSE Ok(c.result)

\* current = &current + &current
IterCurrent(c) == PointAdd(c.current, c.current)

MulBegin ==
    /\ call = Idle
    /\ \E k \in MulScalars, p \in MulPoints :
           call' = [op |-> "mulrun", k |-> k, p |-> p, coefficient |-> k % N,
                    current |-> p, result |-> PointInf, iters |-> 0,
                    adds |-> 0]
    /\ UNCHANGED <<hist, thr, frames, tls>>

\* one iteration with a coefficient that is not zero
MulIter ==
    /\ call.op = "mulrun"
    /\ call.coefficient # 0
    /\ IsOk(IterResult(call))
    /\ IsOk(IterCurrent(call))
    /\ call' = [call EXCEPT !.coefficient = Shr(@),
                            !.current = Val(IterCurrent(call)),
                            !.result = Val(IterResult(call)),
                            !.iters = @ + 1,
                            !.adds = @ + (call.coefficient % 2)]
    /\ UNCHANGED <<hist, thr, frames, tls>>

\* an addition of the iteration panics: the call unwinds
MulPanic ==
    /\ call.op = "mulrun"
    /\ call.coefficient # 0
    /\ ~(IsOk(IterResult(call)) /\ IsOk(IterCurrent(call)))
    /\ call' = [op |-> "muldone", k |-> call.k, p |-> call.p,
                iters |-> call.iters, adds |-> call.adds,
                out |-> IF IsOk(IterResult(call)) THEN IterCurrent(call)
                        ELSE IterResult(call)]
    /\ UNCHANGED <<hist, thr, frames, tls>>

\* if coefficient == zero { break result }
MulBreak ==
    /\ call.op = "mulrun"
    /\ call.coefficient = 0
    /\ call' = [op |-> "muldone", k |-> call.k, p |-> call.p,
                iters |-> call.iters, adds |-> call.adds,
                out |-> Ok(call.result)]
    /\ UNCHANGED <<hist, thr, frames, tls>>

MulReturn ==
    /\ call.op = "muldone"
    /\ call' = Idle
    /\ UNCHANGED <<hist, thr, frames, tls>>

NextMul ==
    \/ MulBegin
    \/ MulIter
    \/ MulPanic
    \/ MulBreak
    \/ MulReturn

\* a call that has started goes on running: its next step is taken
SpecMul ==
    /\ Init
    /\ [][NextMul]_vars
    /\ WF_vars(MulIter)
    /\ WF_vars(MulPanic)
    /\ WF_vars(MulBreak)

-----------------------------------------------------------------------------
(* The constants: every static of constants.rs is a thread_local!, a slot   *)
(* per thread that is filled by its initialiser at the first with() of the  *)
(* thread.  Threads read constants in any order and interleaving; an        *)
(* initialiser that uses another constant reads it through with() too.      *)

\* the modulus literal of N_RING
NRingModulus == 907

\* the modulus literal of P_RING
PRingModulus == 967

\* the value that the initialiser of the static c returns
Initialiser(c) ==
    CASE c = "B" -> Val(ElementNew(B))
      [] c = "N" -> N
      [] c = "P" -> P
      [] c = "G" ->
             Val(PointNew(Some(Val(ElementNew(Gx))),
                          Some(Val(ElementNew(Gy)))))
      [] c = "N_RING" -> [modulus |-> NRingModulus]
      [] c = "P_RING" -> [modulus |-> PRingModulus]

\* the constants that the initialiser of c reads, in the order of first use:
\* Element::new reads P, Point::new reads P_RING (pow) and then B
Uses(c) ==
    CASE c = "B" -> <<"P">>
      [] c = "G" -> <<"P", "P_RING", "B">>
      [] OTHER -> <<>>

\* one slot for all threads: a plain static filled without a guard
SlotMut(t) == 1

\* thread_local!: each thread has its own slot
Slot(t) == t

\* the slot of the static c as thread t sees it
SlotOf(t, c) == tls[Slot(t)][c]

\* the with() that thread t is in: the last one entered
Top(t) == thr[t].stack[Len(thr[t].stack)]

\* the first constant that the initialiser of c has yet to read
NextUse(t, c) ==
    With({i \in 1..Len(Uses(c)) : SlotOf(t, Uses(c)[i]).state # "done"},
         LAMBDA todo :
             IF todo = {} THEN <<>>
             ELSE <<Uses(c)[CHOOSE i \in todo : \A j \in todo : i <= j]>>)

\* thread t calls c.with(..)
ConstRead ==
    \E t \in Threads, c \in ConstNames :
        /\ thr[t].pc = "idle"
        /\ thr' = [thr EXCEPT ![t] = [pc |-> "with",
                                      stack |-> <<[c |-> c, at |-> "with"]>>]]
        /\ UNCHANGED <<call, hist, frames, tls>>

\* with() finds the slot empty: the initialiser starts
ConstEnter ==
    \E t \in Threads :
        /\ thr[t].pc = "with"
        /\ Top(t).at = "with"
        /\ SlotOf(t, Top(t).c).state = "uninit"
        /\ thr' = [thr EXCEPT ![t].stack[Len(thr[t].stack)].at = "init"]
        /\ UNCHANGED <<call, hist, frames, tls>>

\* the initialiser comes to a constant it has not yet got: a with() inside
ConstNested ==
    \E t \in Threads :
        /\ thr[t].pc = "with"
        /\ Top(t).at = "init"
        /\ NextUse(t, Top(t).c) # <<>>
        /\ thr' = [thr EXCEPT ![t].stack =
                       Append(@, [c |-> NextUse(t, Top(t).c)[1],
                                  at |-> "with"])]
        /\ UNCHANGED <<call, hist, frames, tls>>

\* the initialiser returns: its value is put in the slot
ConstStore ==
    \E t \in Threads :
        /\ thr[t].pc = "with"
        /\ Top(t).at = "init"
        /\ NextUse(t, Top(t).c) = <<>>
        /\ tls' = [tls EXCEPT ![Slot(t)][Top(t).c] =
                       [state |-> "done", val |-> <<Initialiser(Top(t).c)>>,
                        inits |-> @.inits + 1]]
        /\ thr' = [thr EXCEPT ![t].stack[Len(thr[t].stack)].at = "with"]
        /\ UNCHANGED <<call, hist, frames>>

\* with() finds the slot filled: the closure gets a reference to its value;
\* an inner with() returns to the initialiser that called it, the outer one
\* to the caller
ConstGet ==
    \E t \in Threads :
        /\ thr[t].pc = "with"
        /\ Top(t).at = "with"
        /\ SlotOf(t, Top(t).c).state = "done"
        /\ thr' = [thr EXCEPT ![t] =
                       IF Len(thr[t].stack) = 1
                       THEN [pc |-> "got", c |-> Top(t).c,
                             val |-> SlotOf(t, Top(t).c).val[1]]
                       ELSE [pc |-> "with",
                             stack |-> SubSeq(thr[t].stack, 1,
                                              Len(thr[t].stack) - 1)]]
        /\ UNCHANGED <<call, hist, frames, tls>>

\* the closure ends
ConstDone ==
    \E t \in Threads :
        /\ thr[t].pc = "got"
        /\ thr' = [thr EXCEPT ![t] = ThreadIdle]
        /\ UNCHANGED <<call, hist, frames, tls>>

NextConst ==
    \/ ConstRead
    \/ ConstEnter
    \/ ConstNested
    \/ ConstStore
    \/ ConstGet
    \/ ConstDone

SpecConst == Init /\ [][NextConst]_vars

-----------------------------------------------------------------------------
(* Claims *)

\* the curve equation, in plain integer arithmetic
OnCurve(x, y) == (y * y) % P = (x * x * x + 7) % P

IsSign == call.op = "sign"

IsVerify == call.op = "verify"

\* C1 (as claimed): the signature that sign returns is accepted by the
\* signer's public point: verify returns true.
C1_RoundTrip == IsVerify /\ call.src = "own" => call.out = Ok(TRUE)

\* C2 (as claimed): when the point R of verify is the identity, verify
\* returns false.
C2_IdentityIsFalse ==
    IsVerify /\ IsOk(call.R) /\ IsInf(Val(call.R)) => call.out = Ok(FALSE)

\* C3 (as claimed): when R is not the identity, verify returns true if and
\* only if the x-coordinate of R reduced modulo N equals r.
C3_TrueIffXModN ==
    IsVerify /\ IsOk(call.R) /\ ~IsInf(Val(call.R)) =>
        /\ IsOk(call.out)
        /\ Val(call.out) <=> (Val(call.R).x[1] % N = call.r)

\* C4 (as claimed): every signature that sign returns has 1 <= r < N and
\* 1 <= s < N, with r the x-coordinate of k * G reduced modulo N.
C4_SignatureInRange ==
    IsSign =>
        /\ IsOk(call.out)
        /\ Val(call.out).r \in 1..(N - 1)
        /\ Val(call.out).s \in 1..(N - 1)
        /\ Val(call.out).r = Val(ScalarMul(Val(call.out).k, G)).x[1] % N

\* C5: every signature that sign returns has s <= N/2; s is N - raw when the
\* raw s = (z + r * e) / k mod N exceeds N/2, and raw otherwise.
C5_LowS ==
    IsSign /\ IsOk(call.out) =>
        LET sig == Val(call.out)
        IN  /\ sig.raw \in 0..(N - 1)
            /\ (sig.raw * sig.k) % N = (call.z + sig.r * call.e) % N
            /\ 2 * sig.s <= N
            /\ sig.s = IF 2 * sig.raw > N THEN N - sig.raw ELSE sig.raw

\* a signature whose raw s was above N/2 has been returned
C5_Witness ==
    IsSign /\ IsOk(call.out) /\ 2 * Val(call.out).raw > N
           /\ Val(call.out).s = N - Val(call.out).raw

\* C6: signing is deterministic: the signatures returned for the same secret
\* and the same hash, in whichever threads and however the runs interleave,
\* are identical.
C6_Deterministic ==
    \A i \in DOMAIN hist, j \in DOMAIN hist :
        hist[i].e = hist[j].e /\ hist[i].z = hist[j].z =>
            /\ IsOk(hist[i].out) /\ IsOk(hist[j].out)
            /\ Val(hist[i].out).r = Val(hist[j].out).r
            /\ Val(hist[i].out).s = Val(hist[j].out).s

\* two threads have signed the same hash with the same secret, in runs that
\* overlapped (the second began before the first returned) and went around
\* the retry loop
C6_Witness ==
    /\ Len(hist) = 2
    /\ hist[1].t # hist[2].t
    /\ hist[1].e = hist[2].e /\ hist[1].z = hist[2].z
    /\ hist[2].at = 0
    /\ hist[1].retried /\ hist[2].retried

\* C7 (as claimed): parsing the string that serialise returns for a point of
\* the curve, compressed or not, succeeds and returns that point.
C7_SecRoundTrip == call.op = "parseback" => call.out = Ok(call.p)

\* C8 (as claimed): serialise encodes 04, x and y, or 02/03 and x, with x and
\* y as exactly ElemBytes big-endian bytes each.
C8_FixedWidth ==
    call.op = "serialise" /\ call.p # PointInf =>
        LET x == call.p.x[1]
            y == call.p.y[1]
        IN  call.out =
                Ok(EncodeUpper(
                    IF call.compressed
                    THEN <<IF y % 2 = 0 THEN 2 ELSE 3>>
                             \o FixedBytes(x, ElemBytes)
                    ELSE <<4>> \o FixedBytes(x, ElemBytes)
                             \o FixedBytes(y, ElemBytes)))

\* C9 (as claimed): every point that new, parse, addition or scalar
\* multiplication returns is the identity or satisfies the curve equation.
C9_OnCurve ==
    call.op \in {"new", "add", "mul", "parse", "parseback"} /\ IsOk(call.out)
        => \/ Val(call.out) = PointInf
           \/ /\ Val(call.out).x # None
              /\ Val(call.out).y # None
              /\ OnCurve(Val(call.out).x[1], Val(call.out).y[1])

\* C10: Point::new returns the identity for (None, None), InvalidPoint when
\* exactly one coordinate is present, the point (x, y) when y^2 = x^3 + 7
\* and InvalidPoint otherwise.
C10_PointNew ==
    call.op = "new" =>
        call.out =
            IF call.x = None /\ call.y = None THEN Ok(PointInf)
            ELSE IF call.x = None \/ call.y = None THEN Err("InvalidPoint")
            ELSE IF OnCurve(call.x[1], call.y[1])
            THEN Ok([x |-> call.x, y |-> call.y])
            ELSE Err("InvalidPoint")

\* new has returned a point of the curve
C10_Witness ==
    call.op = "new" /\ call.x # None /\ call.y # None /\ IsOk(call.out)

\* C11: the identity is neutral for point addition: P + identity = P and
\* identity + P = P for every point P, the identity included.
C11_IdentityNeutral ==
    call.op = "add" =>
        /\ call.q = PointInf => call.out = Ok(call.p)
        /\ call.p = PointInf => call.out = Ok(call.q)

\* the identity has been added on the left of a point of the curve
C11_Witness ==
    /\ call.op = "add"
    /\ call.p = PointInf
    /\ call.q # PointInf
    /\ call.out = Ok(call.q)

\* C12: scalar multiplication agrees with repeated addition: for 0 <= k < N,
\* k * P is the sum of k copies of P (0 * P is the identity), and
\* 2 * G + 2 * G = 4 * G.
C12_MulIsRepeatedAdd ==
    /\ call.op = "sum" /\ call.k < N =>
           IsOk(call.out) /\ call.out = call.acc
    /\ call.op = "sum" /\ call.k = 0 => call.out = Ok(PointInf)
    /\ call.op = "add" /\ call.p = Val(ScalarMul(2, G)) /\ call.q = call.p
           => call.out = ScalarMul(4, G)

\* N - 1 copies of G have been summed
C12_Witness ==
    /\ call.op = "sum"
    /\ call.k = N - 1
    /\ call.p = G
    /\ IsOk(call.acc)
    /\ Val(call.acc) = [x |-> Some(Gx), y |-> Some(P - Gy)]

\* C13: N * G is the identity, the sum of N copies of a point is the
\* identity, and (k + N) * P is the sum of k + N copies of P.
C13_Order ==
    /\ call.op = "mul" /\ call.k = N => call.out = Ok(PointInf)
    /\ call.op = "sum" /\ call.k = N => call.acc = Ok(PointInf)
    /\ call.op = "sum" /\ call.k >= N =>
           IsOk(call.out) /\ call.out = call.acc

\* more than P copies of G have been summed
C13_Witness ==
    /\ call.op = "sum"
    /\ call.k > P
    /\ call.p = G
    /\ IsOk(call.acc)
    /\ Val(call.acc) # PointInf

\* C14: Element::new(num) fails with the out-of-range error exactly when
\* num >= P; below P it returns the element whose num is the input.
C14_ElementNew ==
    call.op = "elnew" =>
        /\ call.num > P - 1 <=> call.out = Err("NotInRange")
        /\ call.num < P => call.out = Ok(call.num)

\* Element::new has refused P itself
C14_Witness ==
    call.op = "elnew" /\ call.num = P /\ call.out = Err("NotInRange")

\* C15: field closure: every element that add, sub, mul, div by a nonzero
\* element, pow on a nonzero base or sqrt returns, after any sequence of
\* them, has 0 <= num < P.
C15_Closure ==
    call.op = "el" =>
        /\ call.a \in 0..(P - 1)
        /\ IsOk(call.out) => Val(call.out) \in 0..(P - 1)
        /\ call.how \in {"add", "sub", "mul", "sqrt"} => IsOk(call.out)
        /\ call.how \in {"div", "divref"} /\ call.b # 0 => IsOk(call.out)
        /\ call.how = "pow" /\ call.a # 0 => IsOk(call.out)

\* a product that wraps around P has been returned, on an element that is
\* itself the result of an operation
C15_Witness ==
    /\ call.op = "el"
    /\ call.chained
    /\ call.how = "mul"
    /\ call.a * call.b > P
    /\ IsOk(call.out)

\* C16: division is multiplication by the inverse: (a / b) * b = a for every
\* a and every nonzero b, and a / a = 1 for every nonzero a.
C16_DivInverse ==
    call.op = "el" /\ call.how \in {"div", "divref"} /\ call.b # 0 =>
        /\ IsOk(call.out)
        /\ (Val(call.out) * call.b) % P = call.a
        /\ call.a = call.b => Val(call.out) = 1

\* an element has been divided by P - 1, that is by -1
C16_Witness ==
    /\ call.op = "el"
    /\ call.how = "divref"
    /\ call.b = P - 1
    /\ call.a > 1
    /\ call.out = Ok(P - call.a)

\* the square roots of a, by enumeration
Roots(a) == {y \in 0..(P - 1) : (y * y) % P = a}

\* C17: for every square a, sqrt(a) squared is a, and the other root is
\* P - sqrt(a).
C17_Sqrt ==
    call.op = "el" /\ call.how = "sqrt" /\ Roots(call.a) # {} =>
        /\ IsOk(call.out)
        /\ (Val(call.out) * Val(call.out)) % P = call.a
        /\ ((P - Val(call.out)) * (P - Val(call.out))) % P = call.a
        /\ Roots(call.a) = {Val(call.out), (P - Val(call.out)) % P}

\* the root of a square with two roots has been returned
C17_Witness ==
    /\ call.op = "el"
    /\ call.how = "sqrt"
    /\ Cardinality(Roots(call.a)) = 2
    /\ IsOk(call.out)
    /\ Val(call.out) > 1

\* the product of n copies of a, modulo P
RECURSIVE NFold(_, _)
NFold(a, n) == IF n = 0 THEN 1 ELSE (a * NFold(a, n - 1)) % P

\* C18: for n >= 0, a.pow(n) is the product of n copies of a, and for a
\* nonzero a, a.pow(-n) * a.pow(n) = 1.
C18_NegativeExponent ==
    call.op = "el" /\ call.how = "pow" =>
        /\ call.b >= 0 => call.out = Ok(NFold(call.a, call.b))
        /\ call.b < 0 /\ call.a # 0 =>
               /\ IsOk(call.out)
               /\ (Val(call.out) * NFold(call.a, -call.b)) % P = 1

\* 7 has been raised to the power -3
C18_Witness ==
    /\ call.op = "el"
    /\ call.how = "pow"
    /\ call.a = 7
    /\ call.b = -3
    /\ IsOk(call.out)
    /\ (Val(call.out) * 343) % P = 1

\* the bytes of a string of hex digits
RECURSIVE HexDecode(_)
HexDecode(str) ==
    IF Len(str) < 2 THEN <<>>
    ELSE <<HexVal(str[1]) * 16 + HexVal(str[2])>>
             \o HexDecode(SubSeq(str, 3, Len(str)))

\* bs holds the value n >= 1 as a DER INTEGER body: big-endian, first byte
\* below 0x80, a leading 0x00 only before a byte of 0x80 or more
DerBody(bs, n) ==
    /\ Len(bs) >= 1
    /\ FromBeBytes(bs) = n
    /\ bs[1] < 128
    /\ bs[1] = 0 => Len(bs) >= 2 /\ bs[2] >= 128

\* bs is 0x30, LL, 0x02, Lr, the body of r, 0x02, Ls, the body of s
DerShape(bs, r, s) ==
    /\ Len(bs) >= 8
    /\ bs[1] = 48
    /\ bs[2] = Len(bs) - 2
    /\ bs[3] = 2
    /\ Len(bs) >= 6 + bs[4]
    /\ DerBody(SubSeq(bs, 5, 4 + bs[4]), r)
    /\ bs[5 + bs[4]] = 2
    /\ Len(bs) = 6 + bs[4] + bs[6 + bs[4]]
    /\ DerBody(SubSeq(bs, 7 + bs[4], Len(bs)), s)

\* C19: for r, s >= 1, Signature::serialise returns the upper-case hex of
\* 0x30, LL, 0x02, Lr, r-bytes, 0x02, Ls, s-bytes, with r-bytes and s-bytes
\* minimal big-endian and 0x00 prepended exactly when the first byte is
\* 0x80 or more, and the lengths as stated.
C19_Der ==
    call.op = "der" /\ call.r >= 1 /\ call.s >= 1 =>
        /\ IsOk(call.out)
        /\ Len(Val(call.out)) % 2 = 0
        /\ \A i \in DOMAIN Val(call.out) :
               Val(call.out)[i] \in (48..57) \cup (65..70)
        /\ DerShape(HexDecode(Val(call.out)), call.r, call.s)

\* a signature with a padded r and an unpadded s has been encoded
C19_Witness ==
    /\ call.op = "der"
    /\ call.r = 128
    /\ call.s = N - 1
    /\ IsOk(call.out)
    /\ Len(Val(call.out)) = 20

\* C20 (as claimed): verify returns true or false for every public point,
\* hash and signature; it never panics.
C20_VerifyTotal == IsVerify => call.out \in {Ok(TRUE), Ok(FALSE)}

\* C21 (as claimed): every key that PrivateKey::new builds holds a secret e
\* with 0 < e < N and the public point e * G, which is not the identity.
C21_KeyInvariant ==
    call.op = "newkey" =>
        /\ 0 < call.e /\ call.e < N
        /\ IsOk(call.out)
        /\ ~IsInf(Val(call.out))

\* the K/V sequence as specified: K and V on entry to round n of the loop
RECURSIVE SpecRound(_, _, _)
SpecRound(e, z, n) ==
    IF n = 0
    THEN With(Hmac(Repeat(0), NonceMsg(Repeat(1), 0, e, z)),
              LAMBDA k1 :
         With(Hmac(k1, Repeat(1)),
              LAMBDA v1 :
         With(Hmac(k1, NonceMsg(v1, 1, e, z)),
              LAMBDA k2 : [k |-> k2, v |-> Hmac(k2, v1)])))
    ELSE With(SpecRound(e, z, n - 1),
              LAMBDA s :
         With(Hmac(s.k, s.v),
              LAMBDA c :
         With(Hmac(s.k, c \o <<0>>),
              LAMBDA k : [k |-> k, v |-> Hmac(k, c)])))

\* the candidate of round n
SpecCandidate(e, z, n) ==
    With(SpecRound(e, z, n), LAMBDA s : FromBeBytes(Hmac(s.k, s.v)))

\* K and V as specified at position pc, in round n
SpecKV(pc, e, z, n) ==
    CASE pc = "k1" -> [k |-> Repeat(0), v |-> Repeat(1)]
      [] pc = "v1" ->
             [k |-> Hmac(Repeat(0), NonceMsg(Repeat(1), 0, e, z)),
              v |-> Repeat(1)]
      [] pc = "k2" ->
             With(Hmac(Repeat(0), NonceMsg(Repeat(1), 0, e, z)),
                  LAMBDA k1 : [k |-> k1, v |-> Hmac(k1, Repeat(1))])
      [] pc = "v2" ->
             With(Hmac(Repeat(0), NonceMsg(Repeat(1), 0, e, z)),
                  LAMBDA k1 :
                      [k |-> SpecRound(e, z, 0).k, v |-> Hmac(k1, Repeat(1))])
      [] pc = "loop" -> SpecRound(e, z, n)
      [] pc = "test" ->
             With(SpecRound(e, z, n),
                  LAMBDA s : [k |-> s.k, v |-> Hmac(s.k, s.v)])
      [] pc = "retry" ->
             With(SpecRound(e, z, n - 1),
                  LAMBDA s : [k |-> SpecRound(e, z, n).k,
                              v |-> Hmac(s.k, s.v)])

\* the order of the positions of deterministic_k
SpecOrder ==
    {<<"idle", "k1">>, <<"k1", "v1">>, <<"v1", "k2">>, <<"k2", "v2">>,
     <<"v2", "loop">>, <<"loop", "test">>, <<"test", "sign">>,
     <<"test", "retry">>, <<"retry", "loop">>, <<"sign", "idle">>}

\* thread t holds the specified K and V, or the specified nonce
SpecHolds(t) ==
    CASE thr[t].pc = "idle" -> TRUE
      [] thr[t].pc = "sign" ->
             /\ thr[t].k = SpecCandidate(thr[t].e, thr[t].z, thr[t].tries)
             /\ thr[t].k >= 1 /\ thr[t].k < N
             /\ \A m \in 0..(thr[t].tries - 1) :
                    ~(SpecCandidate(thr[t].e, thr[t].z, m) \in 1..(N - 1))
      [] OTHER ->
             frames[t] = SpecKV(thr[t].pc, thr[t].e, thr[t].z, thr[t].tries)

\* C22: deterministic_k goes through the positions of the K/V state
\* machine in the specified order, at each position K and V are the
\* specified HMAC values (e and z being the byte strings secret_bytes and
\* z_bytes), and the nonce returned is the first candidate in [1, N).
C22_StateMachine ==
    [][\A t \in Threads :
           /\ thr'[t].pc # thr[t].pc =>
                  <<thr[t].pc, thr'[t].pc>> \in SpecOrder
           /\ SpecHolds(t)']_vars

\* a call has gone round the retry loop and returned a nonce
C22_Witness ==
    \E t \in Threads : thr[t].pc = "sign" /\ thr[t].tries >= 1

\* C23 (as claimed): for every hash z >= N, z == N and z >= 2 * N included,
\* the hash bytes fed to the nonce HMAC encode z mod N, and so the nonce of
\* z is the nonce of z mod N.
C23_HashReduced ==
    (IsSign /\ call.z >= N) =>
        /\ FromBeBytes(HashBytes(call.z)) = call.z % N
        /\ IsOk(call.out) =>
               Val(call.out).k = DeterministicK(call.e, call.z % N)

\* C24 (as claimed): in the nonce derivation e and the hash are each
\* written with one fixed width, whatever their value: the HMAC message
\* V || 0x00 || e_bytes || z_bytes has the same length for every (e, z), and
\* different pairs (e, z mod N) give different messages.
C24_FixedWidthMessage ==
    IsSign =>
        /\ Len(NonceMsg(Repeat(1), 0, call.e, call.z)) = 3 * ElemBytes + 1
        /\ \A e \in KeySecrets, z \in VerifyHashes :
               <<e, z % N>> # <<call.e, call.z % N>> =>
                   NonceMsg(Repeat(1), 0, e, z)
                       # NonceMsg(Repeat(1), 0, call.e, call.z)

\* an addition of two points that are not the identity
IsAddSome == call.op = "add" /\ ~IsInf(call.p) /\ ~IsInf(call.q)

\* m is the slope of the claim for (x1, y1) + (x2, y2), no division used
IsSlope(m, x1, y1, x2, y2) ==
    IF x1 = x2 /\ y1 = y2
    THEN (m * 2 * y1) % P = (3 * x1 * x1) % P
    ELSE (m * (x2 - x1 + P)) % P = (y2 - y1 + P) % P

\* (x3, y3) is the sum drawn from the slope m
IsSumFrom(m, x1, y1, x2, x3, y3) ==
    /\ x3 = (m * m + 2 * P - x1 - x2) % P
    /\ y3 = (m * (x1 - x3 + P) + P - y1) % P

\* C25: for points P and Q of the curve, neither the identity, P + Q does
\* not panic; it is the identity exactly when x_P == x_Q and y_Q == -y_P;
\* otherwise it is the point drawn from the slope 3 x_P^2 / (2 y_P) when
\* P == Q and (y_Q - y_P) / (x_Q - x_P) when not.
C25_AddLaw ==
    IsAddSome =>
        /\ OnCurve(call.p.x[1], call.p.y[1])
        /\ OnCurve(call.q.x[1], call.q.y[1])
        /\ IsOk(call.out)
        /\ IsInf(Val(call.out)) <=>
               /\ call.p.x = call.q.x
               /\ call.q.y[1] = (P - call.p.y[1]) % P
        /\ ~IsInf(Val(call.out)) =>
               \E m \in 0..(P - 1) :
                   /\ IsSlope(m, call.p.x[1], call.p.y[1],
                              call.q.x[1], call.q.y[1])
                   /\ IsSumFrom(m, call.p.x[1], call.p.y[1], call.q.x[1],
                                Val(call.out).x[1], Val(call.out).y[1])

\* a point has been added to its inverse
C25_Witness ==
    /\ IsAddSome
    /\ call.p.x = call.q.x
    /\ call.p.y # call.q.y
    /\ call.out = Ok(PointInf)

\* the number of bits of n
RECURSIVE BitLength(_)
BitLength(n) == IF n = 0 THEN 0 ELSE 1 + BitLength(n \div 2)

\* C26: the loop of scalar multiplication ends for every multiplier and
\* point: every iteration makes the reduced coefficient smaller, there are
\* at most bit-length(N) iterations, every call that is running comes to
\* its end, and a multiplier that is 0 modulo N returns the identity without
\* a point addition.
C26_Terminates ==
    /\ [][(call.op = "mulrun" /\ call'.op = "mulrun") =>
              /\ call'.coefficient < call.coefficient
              /\ call'.coefficient >= 0]_vars
    /\ [](call.op \in {"mulrun", "muldone"} => call.iters <= BitLength(N))
    /\ []((call.op = "muldone" /\ call.k % N = 0) =>
              (call.out = Ok(PointInf) /\ call.adds = 0 /\ call.iters = 0))
    /\ (call.op = "mulrun") ~> (call.op = "muldone")

\* a multiplication by a multiple of N has ended, and one that took
\* bit-length(N) iterations
C26_Witness ==
    /\ call.op = "muldone"
    /\ call.k = 2 * N
    /\ call.p = G
    /\ call.out = Ok(PointInf)

\* C27: every constant is initialised at most once in each thread and does
\* not change afterwards; under every interleaving each read of a constant,
\* in whichever thread, gets the same, fully built value; the moduli of
\* N_RING and P_RING are N and P.
C27_Constants ==
    /\ [](\A t \in Threads, c \in ConstNames :
              /\ tls[t][c].inits <= 1
              /\ tls[t][c].state = "done" <=> tls[t][c].inits = 1
              /\ \A u \in Threads :
                     (tls[t][c].state = "done" /\ tls[u][c].state = "done")
                         => tls[t][c].val = tls[u][c].val)
    /\ [](\A t \in Threads :
              thr[t].pc = "got" =>
                  /\ SlotOf(t, thr[t].c).state = "done"
                  /\ thr[t].val = SlotOf(t, thr[t].c).val[1]
                  /\ \A u \in Threads :
                         (thr[u].pc = "got" /\ thr[u].c = thr[t].c)
                             => thr[u].val = thr[t].val
                  /\ thr[t].c = "G" =>
                         /\ ~IsInf(thr[t].val)
                         /\ OnCurve(thr[t].val.x[1], thr[t].val.y[1])
                  /\ thr[t].c = "N" => thr[t].val = N
                  /\ thr[t].c = "P" => thr[t].val = P
                  /\ thr[t].c = "N_RING" => thr[t].val.modulus = N
                  /\ thr[t].c = "P_RING" => thr[t].val.modulus = P)
    /\ [][\A t \in Threads, c \in ConstNames :
              tls[t][c].state = "done" => tls'[t][c] = tls[t][c]]_vars

\* both threads have read G, each after its own initialisation
C27_Witness ==
    \A t \in Threads :
        /\ thr[t].pc = "got"
        /\ thr[t].c = "G"
        /\ SlotOf(t, "G").inits = 1

\* a string that is no SEC encoding under any reading: empty, a prefix byte
\* other than 0x02, 0x03, 0x04, or too short to hold one coordinate
Malformed(str) ==
    \/ str = <<>>
    \/ ~(str[1] \in {2, 3, 4})
    \/ Len(str) < 1 + ElemBytes

\* C28 (as claimed): on every malformed input (an empty string, a string
\* shorter than its prefix announces, a prefix byte that is none of 0x02,
\* 0x03, 0x04) Point::parse returns an error: it does not panic and it
\* returns no point.
C28_ParseRejects ==
    (call.op = "parse" /\ Malformed(call.str)) => call.out.tag = "err"

\* C29 (as claimed): on the curve a = 0, b = 7 over the same prime the
\* generic Point addition and the secp256k1 Point addition return the same
\* point for every pair of points of the curve: equal points, inverses and
\* the identity on either side included.
C29_SameSum ==
    call.op = "bothadd" =>
        /\ IsOk(call.generic)
        /\ IsOk(call.out)
        /\ Coordinates(Val(call.generic)) = Val(call.out)

\* C30 (as claimed): serialise returns a value, without a panic, for every
\* point that Point::inf, an addition, a multiplication or PrivateKey::new
\* can hand to it, the identity included.
C30_SerialiseTotal == call.op = "serialise" => IsOk(call.out)

=============================================================================
